---- MODULE Spec2Model ----
(***************************************************************************)
(* Model of scan_unreal_project (src-tauri/src/main.rs): the walk of       *)
(* <project>/Content, the extension filter, the prefix classification and  *)
(* the translation of filesystem paths into /Game/... reference paths.     *)
(*                                                                         *)
(* Strings are sequences of one-character strings, so that the path and    *)
(* string functions of the source (extension, file_stem, replace,          *)
(* rsplit_once, starts_with) are computed character by character.          *)
(***************************************************************************)
EXTENDS Integers, Sequences, FiniteSets, TLC

VARIABLES host, fs, arg, pc, stack, seen, assets, ret

vars == <<host, fs, arg, pc, stack, seen, assets, ret>>

-----------------------------------------------------------------------------
(* Bounds of the model.                                                    *)

\* greatest number of entries below Content in a general tree
MaxEntries == 2
\* greatest number of nested directories above the leaf of a chain tree
MaxChain == 2
\* greatest number of entries below Content in the two-call specification
MaxShared == 3

-----------------------------------------------------------------------------
(* Strings.                                                                *)

S_Content == <<"C", "o", "n", "t", "e", "n", "t">>
S_uasset == <<"u", "a", "s", "s", "e", "t">>
S_umap == <<"u", "m", "a", "p">>
S_Game == <<"/", "G", "a", "m", "e", "/">>
S_BP == <<"B", "P", "_">>
S_M == <<"M", "_">>
S_SM == <<"S", "M", "_">>
S_T == <<"T", "_">>
S_NotFound == "Content folder not found"

\* std::path::MAIN_SEPARATOR of the host the program is built for
Sep(h) == IF h = "windows" THEN "\\" ELSE "/"

\* str::starts_with
StartsWith(s, p) ==
  /\ Len(p) <= Len(s)
  /\ SubSeq(s, 1, Len(p)) = p

\* index of the last occurrence of character c in s, 0 when there is none
LastIndexOf(s, c) ==
  LET hits == {i \in 1..Len(s) : s[i] = c}
  IN IF hits = {} THEN 0 ELSE CHOOSE i \in hits : \A j \in hits : j <= i

\* str::replace for a one-character pattern
Replace(s, from, to) == [i \in 1..Len(s) |-> IF s[i] = from THEN to ELSE s[i]]

\* the components of a path joined by the separator (the OsStr of a PathBuf)
RECURSIVE Join(_, _)
Join(comps, sep) ==
  IF comps = <<>> THEN <<>>
  ELSE IF Len(comps) = 1 THEN comps[1]
  ELSE comps[1] \o <<sep>> \o Join(Tail(comps), sep)

None == [some |-> FALSE, val |-> <<>>]
Some(v) == [some |-> TRUE, val |-> v]

-----------------------------------------------------------------------------
(* std::path, as used by the scan.                                         *)

\* rsplit_file_at_dot: (before, after) around the last dot of a file name
RsplitFileAtDot(name) ==
  LET k == LastIndexOf(name, ".")
  IN IF name = <<".", ".">> THEN <<Some(name), None>>
     ELSE IF k = 0 THEN <<None, Some(name)>>
     ELSE IF k = 1 THEN <<Some(name), None>>
     ELSE <<Some(SubSeq(name, 1, k - 1)), Some(SubSeq(name, k + 1, Len(name)))>>

\* Path::extension: before.and(after)
Extension(p) ==
  IF p = <<>> THEN None
  ELSE LET sp == RsplitFileAtDot(p[Len(p)])
       IN IF sp[1].some THEN sp[2] ELSE None

\* Path::file_stem: before.or(after)
FileStem(p) ==
  IF p = <<>> THEN None
  ELSE LET sp == RsplitFileAtDot(p[Len(p)])
       IN IF sp[1].some THEN sp[1] ELSE sp[2]

\* Path::strip_prefix, component by component
StripPrefix(p, base) ==
  IF Len(base) <= Len(p) /\ SubSeq(p, 1, Len(base)) = base
  THEN [ok |-> TRUE, val |-> SubSeq(p, Len(base) + 1, Len(p))]
  ELSE [ok |-> FALSE, val |-> <<>>]

\* variant: the string is cut at its first dot (split_once)
SplitOnceDot(s) ==
  LET hits == {i \in 1..Len(s) : s[i] = "."}
  IN IF hits = {} THEN s
     ELSE SubSeq(s, 1, (CHOOSE i \in hits : \A j \in hits : i <= j) - 1)

\* str::rsplit_once('.').map(|(a, _)| a).unwrap_or(s)
RsplitOnceDot(s) ==
  LET k == LastIndexOf(s, ".")
  IN IF k = 0 THEN s ELSE SubSeq(s, 1, k - 1)

-----------------------------------------------------------------------------
(* The filesystem: per project, the entries at and below <project>/Content. *)
(* An entry is its path relative to Content (<<>> is Content itself), what  *)
(* Path::is_file reports for it, and whether the walker can yield it (ok)   *)
(* or yields an error in its place, as for an unreadable entry.             *)

Entry(path, kind, ok) == [path |-> path, kind |-> kind, ok |-> ok]

Kinds == {"file", "dir"}
Hosts == {"unix", "windows"}

P_ == <<"P">>
Q_ == <<"Q">>
Projects == {P_, Q_}
Calls == {1, 2}

N_F == <<"F">>
N_a == <<"a">>
N_Fuasset == <<"F", ".">> \o S_uasset
N_Fumap == <<"F", ".">> \o S_umap
N_Ftxt == <<"F", ".", "t", "x", "t">>
N_aFuasset == <<"a", "\\">> \o N_Fuasset
N_v1 == <<"v", ".", "1">>
N_ab == <<"a", "\\", "b">>

\* a file name may hold a backslash only where it is no separator
HostNames(h, names) == {n \in names : h = "windows" => LastIndexOf(n, "\\") = 0}

TreeNames(h) == HostNames(h, {N_a, N_Fuasset, N_Fumap, N_Ftxt, N_aFuasset})

DirNames(h) == HostNames(h, {N_a, N_v1, N_ab})

Stems ==
  { <<>>, N_F, S_BP \o N_F, S_BP \o S_M \o N_F, <<"b", "p", "_", "F">>,
    <<"X", "_">> \o S_BP \o N_F, S_M \o N_F, S_SM \o N_F, S_T \o N_F,
    <<"a", ".", "F">>, <<"a", "\\", "F">> }

Suffixes ==
  { <<>>, <<".">>, <<".">> \o S_uasset, <<".">> \o S_umap,
    <<".", "t", "x", "t">>, <<".", "p", "n", "g">>,
    <<".", "U", "A", "S", "S", "E", "T">> }

RichNames(h) ==
  HostNames(h, {s \o x : s \in Stems, x \in Suffixes} \ {<<>>, <<".">>})

RootVariants == {Entry(<<>>, k, o) : k \in Kinds, o \in BOOLEAN}

\* Content alone, or Content with a readable sub-directory a
Seeds ==
  {{r} : r \in RootVariants}
    \cup {{Entry(<<>>, "dir", TRUE), Entry(<<N_a>>, "dir", TRUE)}}

HasPath(t, p) == \E e \in t : e.path = p

\* the entries that can be added to t, each below a directory of t
NewEntries(t, names) ==
  { Entry(Append(x[1].path, x[2]), x[3], x[4]) :
      x \in { y \in t \X names \X Kinds \X BOOLEAN :
                y[1].kind = "dir" /\ ~HasPath(t, Append(y[1].path, y[2])) } }

BoundedSeq(S, n) == UNION {[1..m -> S] : m \in 0..n}

\* Content/d1/.../dn/leaf
ChainTrees(h) ==
  { {Entry(SubSeq(ds, 1, j), "dir", TRUE) : j \in 0..Len(ds)}
      \cup {Entry(Append(ds, n), k, o)} :
      <<ds, n, k, o>> \in
        BoundedSeq(DirNames(h), MaxChain) \X RichNames(h) \X Kinds \X BOOLEAN }

Children(t, d) ==
  {c \in t : Len(c.path) = Len(d.path) + 1
             /\ SubSeq(c.path, 1, Len(d.path)) = d.path}

-----------------------------------------------------------------------------
(* scan_unreal_project.                                                    *)

\* Path::new(&path).join("Content")
ContentPath(a) == <<a, S_Content>>

\* variant: the existence check is missing
ExistsAlways(tree) == TRUE

\* variant: a Content directory without entries counts as missing
ExistsNonEmpty(tree) == \E e \in tree : e.path # <<>>

\* content_path.exists()
Exists(tree) == tree # {}

\* DirEntry::path of an entry the walk of content_path yields
EntryPath(a, e) == ContentPath(a) \o e.path

\* variant: the is_file test is missing
IsFileAny(e) == TRUE

\* Path::is_file
IsFile(e) == e.kind = "file"

Accepted(ext) == ext = Some(S_uasset) \/ ext = Some(S_umap)

\* variant: the prefixes are tried before the umap rule
AssetTypePrefixFirst(ext, file_name) ==
  IF StartsWith(file_name, S_BP) THEN "Blueprint"
  ELSE IF StartsWith(file_name, S_M) THEN "Material"
  ELSE IF StartsWith(file_name, S_SM) THEN "StaticMesh"
  ELSE IF StartsWith(file_name, S_T) THEN "Texture"
  ELSE IF ext = Some(S_umap) THEN "Level"
  ELSE "Asset"

AssetType(ext, file_name) ==
  IF ext = Some(S_umap) THEN "Level"
  ELSE IF StartsWith(file_name, S_BP) THEN "Blueprint"
  ELSE IF StartsWith(file_name, S_M) THEN "Material"
  ELSE IF StartsWith(file_name, S_SM) THEN "StaticMesh"
  ELSE IF StartsWith(file_name, S_T) THEN "Texture"
  ELSE "Asset"

\* variant: the backslashes are not replaced
UePathRaw(h, rel) == S_Game \o Join(rel, Sep(h))

\* variant: the file name is used instead of the relative path
UePathFlat(h, rel) ==
  S_Game \o (IF rel = <<>> THEN <<>> ELSE Replace(rel[Len(rel)], "\\", "/"))

\* format!("/Game/{}", relative_path.to_string_lossy().replace("\\", "/"))
UePath(h, rel) == S_Game \o Replace(Join(rel, Sep(h)), "\\", "/")

UePathNoExt(h, rel) == RsplitOnceDot(UePath(h, rel))

UnrealAsset(h, p, rel) ==
  [ name |-> FileStem(p).val,
    path |-> UePathNoExt(h, rel),
    file_path |-> Join(p, Sep(h)),
    asset_type |-> AssetType(Extension(p), FileStem(p).val) ]

\* variant: one vector shared by all the calls (a static)
PushShared(vecs, i, asset) == [j \in DOMAIN vecs |-> Append(vecs[j], asset)]

\* assets.push(..) on the vector that is local to call i
Push(vecs, i, asset) == [vecs EXCEPT ![i] = Append(@, asset)]

\* the body of the for loop for entry e: the vectors after it
LoopBody(h, vecs, i, a, e) ==
  LET p == EntryPath(a, e)
      rel == StripPrefix(p, ContentPath(a))
  IN IF IsFile(e) /\ Accepted(Extension(p)) /\ rel.ok
     THEN Push(vecs, i, UnrealAsset(h, p, rel.val))
     ELSE vecs

\* path.file_stem().unwrap() on a path that has no stem
Panics(a, e) ==
  LET p == EntryPath(a, e)
  IN IsFile(e) /\ Accepted(Extension(p)) /\ ~FileStem(p).some

\* the open directories of the walk without the exhausted ones on top
RECURSIVE Pending(_)
Pending(st) ==
  IF st = <<>> THEN <<>>
  ELSE IF st[Len(st)] = {} THEN Pending(SubSeq(st, 1, Len(st) - 1))
  ELSE st

\* variant: the walk ends at the first error item (map_while)
WalkerStopsAtError(st, tree, e) ==
  LET rest == [st EXCEPT ![Len(st)] = @ \ {e}]
  IN IF ~e.ok THEN <<>>
     ELSE IF e.kind = "dir" THEN Append(rest, Children(tree, e)) ELSE rest

\* the walker after it has produced its item for entry e of the directory
\* on top: an error item is dropped by filter_map(|e| e.ok()) and the walk
\* goes on; a directory that was read is opened
WalkerNext(st, tree, e) ==
  LET rest == [st EXCEPT ![Len(st)] = @ \ {e}]
  IN IF e.ok /\ e.kind = "dir" THEN Append(rest, Children(tree, e)) ELSE rest

NoRet == [tag |-> "None", err |-> "", val |-> <<>>]
Err(msg) == [tag |-> "Err", err |-> msg, val |-> <<>>]
Ok(v) == [tag |-> "Ok", err |-> "", val |-> v]

\* entry of the call, the existence check, Vec::new() and WalkDir::new()
Start(i) ==
  /\ pc[i] = "idle"
  /\ IF ~Exists(fs[arg[i]])
     THEN /\ pc' = [pc EXCEPT ![i] = "err"]
          /\ ret' = [ret EXCEPT ![i] = Err(S_NotFound)]
          /\ UNCHANGED <<stack, assets>>
     ELSE /\ pc' = [pc EXCEPT ![i] = "walk"]
          /\ assets' = [assets EXCEPT ![i] = <<>>]
          /\ stack' = [stack EXCEPT ![i] = <<{e \in fs[arg[i]] : e.path = <<>>}>>]
          /\ UNCHANGED ret
  /\ UNCHANGED <<host, fs, arg, seen>>

\* one item of the walker (depth first, each directory in the order the
\* host lists it) and, for an item that is no error, the loop body
Visit(i) ==
  /\ pc[i] = "walk"
  /\ LET st == Pending(stack[i])
     IN /\ st # <<>>
        /\ \E e \in st[Len(st)] :
             /\ stack' = [stack EXCEPT ![i] = WalkerNext(st, fs[arg[i]], e)]
             /\ seen' = [seen EXCEPT ![i] = @ \cup {e}]
             /\ IF e.ok /\ Panics(arg[i], e)
                THEN /\ pc' = [pc EXCEPT ![i] = "panic"]
                     /\ UNCHANGED assets
                ELSE /\ assets' = IF e.ok THEN LoopBody(host, assets, i, arg[i], e)
                                  ELSE assets
                     /\ UNCHANGED pc
  /\ UNCHANGED <<host, fs, arg, ret>>

\* the walker is exhausted: Ok(assets)
Finish(i) ==
  /\ pc[i] = "walk"
  /\ Pending(stack[i]) = <<>>
  /\ pc' = [pc EXCEPT ![i] = "done"]
  /\ ret' = [ret EXCEPT ![i] = Ok(assets[i])]
  /\ UNCHANGED <<host, fs, arg, stack, seen, assets>>

Next == \E i \in Calls : Start(i) \/ Visit(i) \/ Finish(i)

InitLocals ==
  /\ stack = [i \in Calls |-> <<>>]
  /\ seen = [i \in Calls |-> {}]
  /\ assets = [i \in Calls |-> <<>>]
  /\ ret = [i \in Calls |-> NoRet]

\* the filesystem in which project P has tree t and the others no Content
OnlyP(t) == [p \in Projects |-> IF p = P_ THEN t ELSE {}]

\* fs is t, or t with up to n more entries
RECURSIVE GrownFrom(_, _)
GrownFrom(t, n) ==
  \/ fs = OnlyP(t)
  \/ /\ n > 0
     /\ \E e \in NewEntries(t, TreeNames(host)) : GrownFrom(t \cup {e}, n - 1)

\* one call, on project P, whose tree is any general tree or any chain tree
\* ({} is a project without a Content entry)
Init ==
  /\ host \in Hosts
  /\ \/ fs = OnlyP({})
     \/ \E t \in Seeds : GrownFrom(t, MaxEntries)
     \/ \E t \in ChainTrees(host) : fs = OnlyP(t)
  /\ arg = [i \in Calls |-> P_]
  /\ pc = [i \in Calls |-> IF i = 1 THEN "idle" ELSE "off"]
  /\ InitLocals

Spec == Init /\ [][Next]_vars

\* the entries a tree of the two-call specification is made of
SharedEntries ==
  { Entry(<<N_Fuasset>>, "file", TRUE), Entry(<<N_Fumap>>, "file", TRUE),
    Entry(<<N_Ftxt>>, "file", FALSE), Entry(<<N_a>>, "dir", TRUE),
    Entry(<<N_a, N_Fuasset>>, "file", TRUE) }

\* no Content, or a readable Content with up to MaxShared of these entries
SharedTrees ==
  {{}} \cup
  { {Entry(<<>>, "dir", TRUE)} \cup es :
      es \in { x \in SUBSET SharedEntries :
                 /\ Cardinality(x) <= MaxShared
                 /\ \A e \in x : Len(e.path) = 2 =>
                      Entry(<<e.path[1]>>, "dir", TRUE) \in x } }

\* two calls, on the same project or on two projects
InitTwo ==
  /\ host \in Hosts
  /\ arg \in {a \in [Calls -> Projects] : a[1] = P_}
  /\ fs \in {f \in [Projects -> SharedTrees] : arg[2] = P_ => f[Q_] = {}}
  /\ pc = [i \in Calls |-> "idle"]
  /\ InitLocals

SpecTwo == InitTwo /\ [][Next]_vars

-----------------------------------------------------------------------------
(* Vocabulary of the properties, stated on the tree and not through the    *)
(* operators of the scan.                                                  *)

Range(v) == {v[k] : k \in 1..Len(v)}

EndsWith(s, x) == Len(x) <= Len(s) /\ SubSeq(s, Len(s) - Len(x) + 1, Len(s)) = x

\* the name of an entry; Content for the root
NameOf(e) == IF e.path = <<>> THEN S_Content ELSE e.path[Len(e.path)]

\* the directory names d1..dn between Content and the entry
DirsOf(e) == SubSeq(e.path, 1, Len(e.path) - 1)

\* the name is <stem>.<x> with a stem that is not empty
HasExt(n, x) == Len(n) > Len(x) + 1 /\ EndsWith(n, <<".">> \o x)

\* a file whose extension is exactly uasset or umap
Matching(e) == e.kind = "file" /\ (HasExt(NameOf(e), S_uasset) \/ HasExt(NameOf(e), S_umap))

\* the name without its final extension
StemOf(n) == SubSeq(n, 1, LastIndexOf(n, ".") - 1)

ExtOf(n) == SubSeq(n, LastIndexOf(n, ".") + 1, Len(n))

HasBackslash(e) == \E k \in 1..Len(e.path) : LastIndexOf(e.path[k], "\\") # 0

\* d lies on the way from Content to e
Above(d, e) == Len(d.path) < Len(e.path) /\ SubSeq(e.path, 1, Len(d.path)) = d.path

\* the entries the traversal produces an item for: all the directories above
\* them could be read
Reachable(t) == {e \in t : \A d \in t : Above(d, e) => d.ok /\ d.kind = "dir"}

\* the matching files the traversal yields successfully
YieldedFiles(t) == {e \in Reachable(t) : e.ok /\ Matching(e)}

\* the absolute path of entry e of project a, as the host writes it
AbsPath(a, e) == Join(<<a, S_Content>> \o e.path, Sep(host))

Running(i) == pc[i] \in {"walk", "done", "err", "panic"}

\* the entries call i has traversed whose record is r
EntriesOf(i, r) == {e \in seen[i] : AbsPath(arg[i], e) = r.file_path}

Labels == {"Level", "Blueprint", "Material", "StaticMesh", "Texture", "Asset"}

Rules ==
  << <<S_BP, "Blueprint">>, <<S_M, "Material">>, <<S_SM, "StaticMesh">>,
     <<S_T, "Texture">> >>

\* the ordered first-match rule list on extension and stem
Category(n) ==
  IF HasExt(n, S_umap) THEN "Level"
  ELSE LET hits == {k \in 1..Len(Rules) : StartsWith(StemOf(n), Rules[k][1])}
       IN IF hits = {} THEN "Asset"
          ELSE Rules[CHOOSE k \in hits : \A j \in hits : k <= j][2]

-----------------------------------------------------------------------------
(* The properties.                                                         *)

\* C1: when the Content entry of the project does not exist the call returns
\* the content-root-not-found error, has built no record and has traversed
\* no entry.
C1_MissingRootFails ==
  \A i \in Calls :
    (fs[arg[i]] = {} /\ Running(i)) =>
      /\ pc[i] = "err"
      /\ ret[i] = Err(S_NotFound)
      /\ assets[i] = <<>>
      /\ seen[i] = {}
      /\ stack[i] = <<>>

C1_Witness == pc[1] = "err" /\ ret[1].tag = "Err"

\* C2: the records and the matching files traversed are in one-to-one
\* correspondence (by absolute path): every record belongs to exactly one
\* traversed regular file with extension uasset or umap, every such file has
\* exactly one record, and on return the files are all the matching files
\* the traversal yields; directories and other files have none.
C2_OneToOne ==
  \A i \in Calls :
    LET files == {e \in seen[i] : e.ok /\ Matching(e)}
    IN /\ \A k \in 1..Len(assets[i]) :
            /\ Cardinality(EntriesOf(i, assets[i][k])) = 1
            /\ EntriesOf(i, assets[i][k]) \subseteq files
       /\ \A e \in files :
            Cardinality({k \in 1..Len(assets[i]) :
                           assets[i][k].file_path = AbsPath(arg[i], e)}) = 1
       /\ pc[i] = "done" =>
            /\ ret[i] = Ok(assets[i])
            /\ files = YieldedFiles(fs[arg[i]])

C2_Witness ==
  /\ pc[1] = "done"
  /\ Len(ret[1].val) = 1
  /\ \E d \in seen[1] : d.ok /\ d.kind = "dir" /\ NameOf(d) = N_Fuasset

\* C3: the category of every record is what the ordered first-match rule
\* list gives for the extension and stem of its file, and is one of the six
\* labels.
C3_Category ==
  \A i \in Calls : \A k \in 1..Len(assets[i]) :
    /\ assets[i][k].asset_type \in Labels
    /\ \E e \in EntriesOf(i, assets[i][k]) :
         assets[i][k].asset_type = Category(NameOf(e))

C3_Witness ==
  \E k \in 1..Len(assets[1]) :
    /\ assets[1][k].name = S_BP \o N_F
    /\ assets[1][k].asset_type = "Level"

\* C4 as stated: virtual_path is /Game/ followed by d1..dn and the stem,
\* joined by forward slashes and otherwise unchanged, and name is the stem.
C4_ExactPath ==
  \A i \in Calls : \A k \in 1..Len(assets[i]) :
    \E e \in EntriesOf(i, assets[i][k]) :
      /\ assets[i][k].name = StemOf(NameOf(e))
      /\ assets[i][k].path =
           S_Game \o Join(Append(DirsOf(e), StemOf(NameOf(e))), "/")

\* C4 amended: as stated, except that every backslash of a directory name or
\* of the stem appears in virtual_path as a forward slash (name keeps it).
C4_PathUpToBackslash ==
  \A i \in Calls : \A k \in 1..Len(assets[i]) :
    \E e \in EntriesOf(i, assets[i][k]) :
      /\ assets[i][k].name = StemOf(NameOf(e))
      /\ assets[i][k].path =
           S_Game \o Join([j \in 1..Len(e.path) |->
                             Replace(IF j = Len(e.path) THEN StemOf(e.path[j])
                                     ELSE e.path[j], "\\", "/")], "/")

C4_Witness ==
  \E k \in 1..Len(assets[1]) : \E e \in EntriesOf(1, assets[1][k]) :
    /\ Len(e.path) = 3
    /\ e.path[1] = N_v1
    /\ NameOf(e) = <<"a", ".", "F", ".">> \o S_uasset
    /\ assets[1][k].name = <<"a", ".", "F">>

\* C5: on either host, virtual_path begins with /Game/ and holds no
\* backslash.
C5_GamePrefixNoBackslash ==
  \A i \in Calls : \A k \in 1..Len(assets[i]) :
    /\ StartsWith(assets[i][k].path, S_Game)
    /\ LastIndexOf(assets[i][k].path, "\\") = 0

C5_Witness ==
  /\ host = "windows"
  /\ \E k \in 1..Len(assets[1]) : \E e \in EntriesOf(1, assets[1][k]) :
       Len(e.path) >= 2

\* C6: when Content exists the call neither returns an error nor panics; on
\* return it has traversed every reachable entry, the unreadable ones
\* included, and every matching file the traversal yields has its record.
C6_OnlyFailure ==
  \A i \in Calls :
    (fs[arg[i]] # {} /\ Running(i)) =>
      /\ pc[i] \in {"walk", "done"}
      /\ ret[i].tag # "Err"
      /\ pc[i] = "done" =>
           /\ ret[i].tag = "Ok"
           /\ seen[i] = Reachable(fs[arg[i]])
           /\ \A e \in YieldedFiles(fs[arg[i]]) :
                \E k \in 1..Len(ret[i].val) :
                  ret[i].val[k].file_path = AbsPath(arg[i], e)

C6_Witness ==
  /\ pc[1] = "done"
  /\ ret[1].tag = "Ok"
  /\ Len(ret[1].val) >= 1
  /\ \E e \in seen[1] : ~e.ok

\* C7: two scans of the same tree return the same set of records, whatever
\* the order in which each traversal yields the entries.
C7_SameSet ==
  \A i \in Calls : \A j \in Calls :
    (pc[i] = "done" /\ pc[j] = "done" /\ arg[i] = arg[j]) =>
      Range(ret[i].val) = Range(ret[j].val)

C7_Witness ==
  /\ pc[1] = "done" /\ pc[2] = "done"
  /\ arg[1] = arg[2]
  /\ ret[1].val # ret[2].val
  /\ Len(ret[1].val) >= 2

\* C8: when Content exists and no file of the tree has an accepted
\* extension, the call does not fail and returns the empty list.
C8_EmptyList ==
  \A i \in Calls :
    (fs[arg[i]] # {} /\ ~(\E e \in fs[arg[i]] : Matching(e)) /\ Running(i)) =>
      /\ pc[i] # "err"
      /\ assets[i] = <<>>
      /\ pc[i] = "done" => ret[i] = Ok(<<>>)

C8_Witness ==
  /\ pc[1] = "done"
  /\ ret[1] = Ok(<<>>)
  /\ \E e \in seen[1] : Len(e.path) = 2 /\ e.kind = "file" /\ e.ok

\* the records of the matching files that the traversal of the tree of
\* project a yields
AloneRecords(a) ==
  {UnrealAsset(host, EntryPath(a, e), e.path) : e \in YieldedFiles(fs[a])}

C9_OwnResult ==
  \A i \in Calls :
    /\ pc[i] = "err" => fs[arg[i]] = {} /\ ret[i] = Err(S_NotFound)
    /\ pc[i] = "done" =>
         /\ fs[arg[i]] # {}
         /\ ret[i].tag = "Ok"
         /\ Range(ret[i].val) = AloneRecords(arg[i])
         /\ Len(ret[i].val) = Cardinality(AloneRecords(arg[i]))

\* C9: however the steps of two calls interleave, each returns the result of
\* a call that runs alone on its tree (the records of the matching files its
\* traversal yields, each once, or the error when Content is missing), and
\* no step changes the filesystem.
C9_Independent == [](C9_OwnResult) /\ [][fs' = fs]_vars

C9_Witness ==
  /\ pc[1] = "walk" /\ pc[2] = "walk"
  /\ arg[1] # arg[2]
  /\ assets[1] # <<>> /\ assets[2] # <<>>
  /\ assets[1] # assets[2]

\* C10 as stated: no two records of a result have the same virtual_path.
C10_UniqueVirtualPath ==
  \A i \in Calls : \A k \in 1..Len(assets[i]) : \A m \in 1..Len(assets[i]) :
    k # m => assets[i][k].path # assets[i][m].path

\* C10 amended: two records of a result never have the same file_path, and
\* they have the same virtual_path only when their files lie in the same
\* directory and differ in the extension alone, or when a name on the way
\* to one of them holds a backslash.
C10_UniqueUpToExtension ==
  \A i \in Calls : \A k \in 1..Len(assets[i]) : \A m \in 1..Len(assets[i]) :
    k # m =>
      /\ assets[i][k].file_path # assets[i][m].file_path
      /\ assets[i][k].path = assets[i][m].path =>
           \E e \in EntriesOf(i, assets[i][k]) :
             \E f \in EntriesOf(i, assets[i][m]) :
               \/ /\ DirsOf(e) = DirsOf(f)
                  /\ StemOf(NameOf(e)) = StemOf(NameOf(f))
                  /\ ExtOf(NameOf(e)) # ExtOf(NameOf(f))
               \/ HasBackslash(e)
               \/ HasBackslash(f)

C10_Witness ==
  /\ pc[1] = "done"
  /\ Len(ret[1].val) = 2
  /\ ret[1].val[1].path = ret[1].val[2].path
  /\ ret[1].val[1].asset_type # ret[1].val[2].asset_type

====
